---- MODULE Spec2Model ----
(***************************************************************************)
(* Model of the mtm-vector-db document store (backend/services/            *)
(* qdrant_service.py and the routers that call it).                        *)
(*                                                                         *)
(* The vector index (Qdrant) is modelled as a map from point id to         *)
(* (vector, payload).  Point ids are uuid strings in the program; here     *)
(* they are the integers 1..MaxIds and the integer order stands for the    *)
(* string order used by sorted().  Embedding vectors are unit vectors of   *)
(* the plane at multiples of 15 degrees, named by that multiple; a score   *)
(* is the cosine of the angle between two vectors, in hundredths.          *)
(* Timestamps are readings of a clock; 0 is the null timestamp.            *)
(***************************************************************************)
EXTENDS Integers, Sequences, FiniteSets, TLC

VARIABLES store, clock, last, procs

vars == <<store, clock, last, procs>>

-----------------------------------------------------------------------------
(* Bounds *)

MaxIds == 2

MaxSearchIds == 3

MaxLimit == 2

MaxConcIds == 2

NumProcs == 2

MaxFillers == 11

(* ids in use beyond the first page of a scroll are ScrollLimit + 1 up to
   ScrollLimit + MaxExtra *)
MaxExtra == 1

(* the clock reads 1..MaxClock *)
MaxClock == 3

-----------------------------------------------------------------------------
(* Values *)

NoneV == "None"

NullTime == 0

EmptyMeta == "{}"

Ids == 1..MaxIds

SearchIds == 1..MaxSearchIds

ConcIds == 1..MaxConcIds

Procs == 1..NumProcs

Limits == 1..MaxLimit

Thresholds == {0, 90}

PayloadFields == {"title", "content", "source", "source_type", "category",
                  "tags", "metadata", "created_at", "updated_at"}

DocFields == {"title", "content", "source", "source_type", "category",
              "tags", "metadata"}

(* dict.get(key, default) *)
Get(d, k, default) == IF k \in DOMAIN d THEN d[k] ELSE default

(* {**a, **b}: the keys of b override those of a *)
Merge(a, b) == b @@ a

(* Python truthiness of an optional string: None and "" are false *)
Truthy(s) == s # NoneV /\ s # ""

Range(s) == {s[k] : k \in DOMAIN s}

-----------------------------------------------------------------------------
(* Embedder *)

Cos == <<100, 97, 87, 71, 50, 26, 0, -26, -50, -71, -87, -97, -100>>

Abs(n) == IF n < 0 THEN -n ELSE n

(* cosine similarity of two stored unit vectors, as the index scores it *)
Score(v, w) == Cos[Abs(v - w) + 1]

(* EmbeddingService.encode_single: a deterministic function of the text *)
encode_single(text) ==
    CASE text = "a x" -> 0
      [] text = "a y" -> 1
      [] text = "b x" -> 2
      [] text = "b y" -> 4
      [] text = "c x" -> 3
      [] text = "a"   -> 0
      [] text = "y"   -> 3
      [] OTHER        -> 6

(* EmbeddingService.encode_batch: one vector per text, in input order *)
encode_batch(texts) == [k \in DOMAIN texts |-> encode_single(texts[k])]

(* f"{title} {content}" *)
TextForEmbedding(doc) == doc["title"] \o " " \o doc["content"]

-----------------------------------------------------------------------------
(* Vector index (QdrantClient calls) *)

Stored(st, i) == i \in DOMAIN st

(* client.upsert: insert or fully overwrite the point *)
Upsert(st, i, vector, payload) ==
    [j \in DOMAIN st \cup {i} |->
        IF j = i THEN [vector |-> vector, payload |-> payload] ELSE st[j]]

(* client.retrieve: the points that exist, in id-list order, once each (an
   id named again later in the list is not returned again) *)
RECURSIVE Retrieve(_, _)
Retrieve(st, ids) ==
    IF ids = <<>> THEN <<>>
    ELSE LET i == Head(ids)
             rest == Retrieve(st, SelectSeq(Tail(ids), LAMBDA j : j # i))
         IN IF Stored(st, i)
            THEN <<[id |-> i, vector |-> st[i].vector,
                    payload |-> st[i].payload]>> \o rest
            ELSE rest

(* client.delete with a PointIdsList: absent ids are ignored *)
Delete(st, i) == [j \in DOMAIN st \ {i} |-> st[j]]

(* mutant of SetPayload: the point selector is ignored *)
SetPayload_EveryPoint(st, i, payload) ==
    [j \in DOMAIN st |-> [vector |-> st[j].vector,
                          payload |-> Merge(st[j].payload, payload)]]

(* client.set_payload: the given keys are written over the point's payload,
   the vector is kept *)
SetPayload(st, i, payload) ==
    [st EXCEPT ![i] = [vector |-> st[i].vector,
                       payload |-> Merge(st[i].payload, payload)]]

(* FieldCondition(field_name=key, match=MatchValue(value)): equality on a
   keyword field, and on a list-valued field equality with some element *)
Matches(payload, condition) ==
    IF condition.key = "tags"
    THEN condition.value \in Range(payload["tags"])
    ELSE payload[condition.key] = condition.value

(* the points a search may return: score at or above the threshold and
   every condition of Filter(must=...) satisfied *)
Hits(st, query_vector, score_threshold, must) ==
    {i \in DOMAIN st :
        /\ Score(st[i].vector, query_vector) >= score_threshold
        /\ \A condition \in must : Matches(st[i].payload, condition)}

(* i is ranked before j: higher score first, equal scores by ascending id *)
RankedBefore(st, query_vector, i, j) ==
    \/ Score(st[i].vector, query_vector) > Score(st[j].vector, query_vector)
    \/ /\ Score(st[i].vector, query_vector) = Score(st[j].vector, query_vector)
       /\ i < j

RECURSIVE Ranked(_, _, _, _)
Ranked(st, query_vector, candidates, limit) ==
    IF limit = 0 \/ candidates = {} THEN <<>>
    ELSE LET best == CHOOSE i \in candidates :
                         \A j \in candidates \ {i} :
                             RankedBefore(st, query_vector, i, j)
         IN <<[id |-> best,
               score |-> Score(st[best].vector, query_vector),
               payload |-> st[best].payload]>>
            \o Ranked(st, query_vector, candidates \ {best}, limit - 1)

(* client.search: at most limit hits, best first *)
SearchIndex(st, query_vector, must, limit, score_threshold) ==
    Ranked(st, query_vector, Hits(st, query_vector, score_threshold, must),
           limit)

-----------------------------------------------------------------------------
(* Document store *)

(* mutant of AddPayload: the category is not copied *)
AddPayload_NoCategory(document, now) ==
    [title       |-> document["title"],
     content     |-> document["content"],
     source      |-> Get(document, "source", NoneV),
     source_type |-> Get(document, "source_type", NoneV),
     category    |-> NoneV,
     tags        |-> Get(document, "tags", <<>>),
     metadata    |-> Get(document, "metadata", EmptyMeta),
     created_at  |-> Get(document, "created_at", now),
     updated_at  |-> Get(document, "updated_at", NullTime)]

(* add_document, "Prepare payload" *)
AddPayload(document, now) ==
    [title       |-> document["title"],
     content     |-> document["content"],
     source      |-> Get(document, "source", NoneV),
     source_type |-> Get(document, "source_type", NoneV),
     category    |-> Get(document, "category", NoneV),
     tags        |-> Get(document, "tags", <<>>),
     metadata    |-> Get(document, "metadata", EmptyMeta),
     created_at  |-> Get(document, "created_at", now),
     updated_at  |-> Get(document, "updated_at", NullTime)]

(* add_document: the index after the upsert; fresh is the generated uuid *)
add_document(st, document, fresh, now) ==
    Upsert(st, Get(document, "id", fresh),
           encode_single(TextForEmbedding(document)),
           AddPayload(document, now))

(* the None that get_document returns; like {} it is false under "not" *)
NoDocument == << >>

(* get_document: None when the id is not stored, else {"id": id, **payload} *)
get_document(st, i) ==
    LET results == Retrieve(st, <<i>>)
    IN IF results # <<>>
       THEN Merge([id |-> results[1].id], results[1].payload)
       ELSE NoDocument

(* mutant of UpdatedDoc: updated_at is not stamped *)
UpdatedDoc_NoStamp(existing, updates, now) == Merge(existing, updates)

(* update_document, "Merge updates": existing, then the supplied fields,
   then the new updated_at *)
UpdatedDoc(existing, updates, now) ==
    Merge(Merge(existing, updates), [updated_at |-> now])

(* update_document, "Re-embed if title or content changed" *)
ReEmbeds(updates) == "title" \in DOMAIN updates \/ "content" \in DOMAIN updates

(* mutant of update_write: the text embedded is the one read, not the
   merged one *)
update_write_StaleText(st, doc_id, updates, existing, now) ==
    LET updated_doc == UpdatedDoc(existing, updates, now)
    IN IF ReEmbeds(updates)
       THEN Upsert(st, doc_id, encode_single(TextForEmbedding(existing)),
                   updated_doc)
       ELSE SetPayload(st, doc_id, updated_doc)

(* update_document after its read: the index after the write *)
update_write(st, doc_id, updates, existing, now) ==
    LET updated_doc == UpdatedDoc(existing, updates, now)
    IN IF ReEmbeds(updates)
       THEN Upsert(st, doc_id, encode_single(TextForEmbedding(updated_doc)),
                   updated_doc)
       ELSE SetPayload(st, doc_id, updated_doc)

(* mutant of update_document: a missing id is reported as updated *)
update_document_MissingIsTrue(st, doc_id, updates, now) ==
    LET existing == get_document(st, doc_id)
    IN IF existing = NoDocument
       THEN [ret |-> TRUE, store |-> st]
       ELSE [ret |-> TRUE,
             store |-> update_write(st, doc_id, updates, existing, now)]

(* update_document: the returned bool and the index afterwards *)
update_document(st, doc_id, updates, now) ==
    LET existing == get_document(st, doc_id)
    IN IF existing = NoDocument
       THEN [ret |-> FALSE, store |-> st]
       ELSE [ret |-> TRUE,
             store |-> update_write(st, doc_id, updates, existing, now)]

(* delete_document: True unless client.delete raises *)
delete_document(st, doc_id) == [ret |-> TRUE, store |-> Delete(st, doc_id)]

(* {"id": str(r.id), "score": r.score, **r.payload} for each hit *)
ResultDicts(results) ==
    [k \in DOMAIN results |->
        Merge([id |-> results[k].id, score |-> results[k].score],
              results[k].payload)]

(* mutant of SearchConditions: the category filter is not applied *)
SearchConditions_NoCategory(filter_category, filter_source_type, filter_tags) ==
    (IF Truthy(filter_source_type)
     THEN {[key |-> "source_type", value |-> filter_source_type]} ELSE {})
    \cup {[key |-> "tags", value |-> filter_tags[k]] : k \in DOMAIN filter_tags}

(* search, "Build filter conditions": one condition per supplied field and
   one per requested tag; filter_tags None or [] supplies none *)
SearchConditions(filter_category, filter_source_type, filter_tags) ==
    (IF Truthy(filter_category)
     THEN {[key |-> "category", value |-> filter_category]} ELSE {})
    \cup
    (IF Truthy(filter_source_type)
     THEN {[key |-> "source_type", value |-> filter_source_type]} ELSE {})
    \cup {[key |-> "tags", value |-> filter_tags[k]] : k \in DOMAIN filter_tags}

(* mutant of search: score_threshold is not handed to the index *)
search_NoThreshold(st, query, limit, score_threshold, filter_category, filter_source_type, filter_tags) ==
    ResultDicts(SearchIndex(st, encode_single(query),
                            SearchConditions(filter_category,
                                             filter_source_type, filter_tags),
                            limit, 0))

(* search *)
search(st, query, limit, score_threshold, filter_category, filter_source_type, filter_tags) ==
    ResultDicts(SearchIndex(st, encode_single(query),
                            SearchConditions(filter_category,
                                             filter_source_type, filter_tags),
                            limit, score_threshold))

Min(a, b) == IF a < b THEN a ELSE b

(* mutant of SimilarTo: limit candidates are requested, not limit + 1 *)
SimilarTo_NoExtra(st, doc_id, vector, limit, score_threshold) ==
    LET results == SearchIndex(st, vector, {}, limit, score_threshold)
        others == SelectSeq(results, LAMBDA r : r.id # doc_id)
    IN ResultDicts(SubSeq(others, 1, Min(limit, Len(others))))

(* mutant of SimilarTo: the reference document is not filtered out *)
SimilarTo_KeepsSelf(st, doc_id, vector, limit, score_threshold) ==
    LET results == SearchIndex(st, vector, {}, limit + 1, score_threshold)
    IN ResultDicts(SubSeq(results, 1, Min(limit, Len(results))))

(* find_similar once it holds the document's vector: the limit + 1 nearest
   points without the reference document, cut to limit *)
SimilarTo(st, doc_id, vector, limit, score_threshold) ==
    LET results == SearchIndex(st, vector, {}, limit + 1, score_threshold)
        others == SelectSeq(results, LAMBDA r : r.id # doc_id)
    IN ResultDicts(SubSeq(others, 1, Min(limit, Len(others))))

(* find_similar: [] when the id is not stored *)
find_similar(st, doc_id, limit, score_threshold) ==
    LET points == Retrieve(st, <<doc_id>>)
    IN IF points = <<>> THEN <<>>
       ELSE SimilarTo(st, doc_id, points[1].vector, limit, score_threshold)

(* add_documents_bulk, the payload of one document of the batch *)
BulkPayload(doc, now) ==
    [title       |-> doc["title"],
     content     |-> doc["content"],
     source      |-> Get(doc, "source", NoneV),
     source_type |-> Get(doc, "source_type", NoneV),
     category    |-> Get(doc, "category", NoneV),
     tags        |-> Get(doc, "tags", <<>>),
     metadata    |-> Get(doc, "metadata", EmptyMeta),
     created_at  |-> now,
     updated_at  |-> NullTime]

(* client.upsert of a list of points, in list order *)
RECURSIVE UpsertAll(_, _)
UpsertAll(st, points) ==
    IF points = <<>> THEN st
    ELSE UpsertAll(Upsert(st, Head(points).id, Head(points).vector,
                          Head(points).payload),
                   Tail(points))

(* add_documents_bulk: the returned ids and the index after the one upsert;
   fresh[k] is the uuid generated for the k-th document *)
add_documents_bulk(st, documents, fresh, now) ==
    LET vectors == encode_batch([k \in DOMAIN documents |->
                                    TextForEmbedding(documents[k])])
        doc_ids == [k \in DOMAIN documents |->
                       Get(documents[k], "id", fresh[k])]
        points == [k \in DOMAIN documents |->
                      [id |-> doc_ids[k], vector |-> vectors[k],
                       payload |-> BulkPayload(documents[k], now)]]
    IN [ret |-> doc_ids, store |-> UpsertAll(st, points)]

-----------------------------------------------------------------------------
(* Calls during which the embedding model or the index fails *)

(* what a call does when it raises: nothing is returned, and the index is
   the one it is handed *)
Raises(st) == [raised |-> TRUE, ret |-> "exception", store |-> st]

Returns(ret, st) == [raised |-> FALSE, ret |-> ret, store |-> st]

(* add_document: encode_single raises before the upsert is made; an upsert
   that raises stores nothing *)
try_add_document(st, document, fresh, now, fault) ==
    IF fault \in {"embedding", "backend"} THEN Raises(st)
    ELSE Returns(Get(document, "id", fresh),
                 add_document(st, document, fresh, now))

(* mutant of try_add_documents_bulk: each document is embedded and upserted
   on its own, so the ones before the failing text are stored *)
try_add_documents_bulk_OneByOne(st, documents, fresh, now, fault, fails_at) ==
    IF fault = "embedding"
    THEN Raises(add_documents_bulk(st, SubSeq(documents, 1, fails_at - 1),
                                   fresh, now).store)
    ELSE IF fault = "backend" THEN Raises(st)
    ELSE LET r == add_documents_bulk(st, documents, fresh, now)
         IN Returns(r.ret, r.store)

(* add_documents_bulk: encode_batch embeds every text of the batch, and
   raises at text fails_at, before the one upsert is made *)
try_add_documents_bulk(st, documents, fresh, now, fault, fails_at) ==
    IF fault = "embedding" THEN Raises(st)
    ELSE IF fault = "backend" THEN Raises(st)
    ELSE LET r == add_documents_bulk(st, documents, fresh, now)
         IN Returns(r.ret, r.store)

(* get_document, "except Exception: return None" *)
try_get_document(st, i, fault) ==
    IF fault = "backend" THEN NoDocument ELSE get_document(st, i)

(* update_document: the read is get_document, which turns a failure into
   None; encode_single and the write raise *)
try_update_document(st, doc_id, updates, now, fault) ==
    LET existing == try_get_document(st, doc_id,
                        IF fault = "read" THEN "backend" ELSE "none")
    IN IF existing = NoDocument THEN Returns(FALSE, st)
       ELSE IF ReEmbeds(updates) /\ fault = "embedding" THEN Raises(st)
       ELSE IF fault = "write" THEN Raises(st)
       ELSE Returns(TRUE, update_write(st, doc_id, updates, existing, now))

(* delete_document, "except Exception: return False" *)
try_delete_document(st, doc_id, fault) ==
    IF fault = "backend" THEN Returns(FALSE, st)
    ELSE Returns(TRUE, Delete(st, doc_id))

-----------------------------------------------------------------------------
(* Relationship graph *)

(* get_relationships, limit=10 of the search made for each point *)
RelLimit == 10

(* mutant of EdgeKey: the pair is not sorted *)
EdgeKey_Unsorted(a, b) == <<a, b>>

(* tuple(sorted([a, b])) *)
EdgeKey(a, b) == IF a <= b THEN <<a, b>> ELSE <<b, a>>

(* mutant of IsNewEdge: candidates outside doc_ids are kept *)
IsNewEdge_AnyCandidate(point_id, sim_id, doc_ids, seen_edges) ==
    /\ sim_id # point_id
    /\ EdgeKey(point_id, sim_id) \notin seen_edges

(* mutant of IsNewEdge: seen_edges is not consulted *)
IsNewEdge_NoSeen(point_id, sim_id, doc_ids, seen_edges) ==
    /\ sim_id # point_id
    /\ sim_id \in Range(doc_ids)

(* get_relationships, the two tests an edge passes before it is appended *)
IsNewEdge(point_id, sim_id, doc_ids, seen_edges) ==
    /\ sim_id # point_id
    /\ sim_id \in Range(doc_ids)
    /\ EdgeKey(point_id, sim_id) \notin seen_edges

(* get_relationships, "for sim in similar": acc holds seen_edges and edges *)
RECURSIVE EdgesOfPoint(_, _, _, _)
EdgesOfPoint(point_id, similar, doc_ids, acc) ==
    IF similar = <<>> THEN acc
    ELSE LET sim == Head(similar)
         IN EdgesOfPoint(point_id, Tail(similar), doc_ids,
                IF IsNewEdge(point_id, sim.id, doc_ids, acc.seen_edges)
                THEN [seen_edges |->
                          acc.seen_edges \cup {EdgeKey(point_id, sim.id)},
                      edges |-> Append(acc.edges,
                                       [source |-> point_id,
                                        target |-> sim.id,
                                        weight |-> sim.score])]
                ELSE acc)

(* get_relationships, "for point in points": one search per point *)
RECURSIVE EdgesOfPoints(_, _, _, _, _)
EdgesOfPoints(st, points, doc_ids, similarity_threshold, acc) ==
    IF points = <<>> THEN acc
    ELSE EdgesOfPoints(st, Tail(points), doc_ids, similarity_threshold,
             EdgesOfPoint(Head(points).id,
                          SearchIndex(st, Head(points).vector, {}, RelLimit,
                                      similarity_threshold),
                          doc_ids, acc))

(* mutant of get_relationships: a node is built for every entry of doc_ids
   that is stored *)
get_relationships_NodePerEntry(st, doc_ids, similarity_threshold) ==
    LET points == Retrieve(st, doc_ids)
        entries == SelectSeq(doc_ids, LAMBDA i : Stored(st, i))
    IN [nodes |-> [k \in DOMAIN entries |->
                      [id |-> entries[k],
                       title |-> Get(st[entries[k]].payload, "title", ""),
                       category |->
                           Get(st[entries[k]].payload, "category", NoneV),
                       source_type |->
                           Get(st[entries[k]].payload, "source_type", NoneV)]],
        edges |-> EdgesOfPoints(st, points, doc_ids, similarity_threshold,
                                [seen_edges |-> {}, edges |-> <<>>]).edges]

(* get_relationships: (nodes, edges) *)
get_relationships(st, doc_ids, similarity_threshold) ==
    LET points == Retrieve(st, doc_ids)
    IN [nodes |-> [k \in DOMAIN points |->
                      [id |-> points[k].id,
                       title |-> Get(points[k].payload, "title", ""),
                       category |-> Get(points[k].payload, "category", NoneV),
                       source_type |->
                           Get(points[k].payload, "source_type", NoneV)]],
        edges |-> EdgesOfPoints(st, points, doc_ids, similarity_threshold,
                                [seen_edges |-> {}, edges |-> <<>>]).edges]

-----------------------------------------------------------------------------
(* Collection statistics *)

(* get_collection_stats, limit=10000 of its one scroll call *)
ScrollLimit == 10000

(* client.scroll without an offset: the ids of the first `limit` points in
   ascending id order. Ids are positive, so the limit-th smallest id is the
   one id c >= limit that has exactly `limit` ids at or below it. *)
Scroll(st, limit) ==
    LET ids == DOMAIN st
    IN IF Cardinality(ids) <= limit THEN ids
       ELSE LET c == CHOOSE c \in {i \in ids : i >= limit} :
                         Cardinality({j \in ids : j <= c}) = limit
            IN {i \in ids : i <= c}

(* get_collection_stats, the dict built by "categories[cat] =
   categories.get(cat, 0) + 1" over the points: falsy values are skipped *)
CountByField(st, points, field) ==
    LET values == {st[i].payload[field] : i \in points}
    IN [v \in {w \in values : Truthy(w)} |->
           Cardinality({i \in points : st[i].payload[field] = v})]

(* the number of "tags[tag] = tags.get(tag, 0) + 1" steps made for tag:
   one for each position of each point's tag list that holds it *)
TagIncrements(st, points, tag) ==
    Cardinality(UNION {{<<i, k>> : k \in {m \in DOMAIN st[i].payload["tags"] :
                                            st[i].payload["tags"][m] = tag}} :
                       i \in points})

(* get_collection_stats *)
get_collection_stats(st) ==
    LET all_points == Scroll(st, ScrollLimit)
    IN [total_documents |-> Cardinality(DOMAIN st),
        categories |-> CountByField(st, all_points, "category"),
        source_types |-> CountByField(st, all_points, "source_type"),
        tags |-> [tag \in UNION {Range(st[i].payload["tags"]) :
                                    i \in all_points} |->
                     TagIncrements(st, all_points, tag)]]

-----------------------------------------------------------------------------
(* Inputs *)

D1 == [title |-> "a", content |-> "x", source |-> "s1",
       source_type |-> "haber", category |-> "ekonomi",
       tags |-> <<"t1", "t2">>, metadata |-> "{k:1}"]

D2 == [title |-> "a", content |-> "y", source |-> NoneV,
       source_type |-> "haber", category |-> "spor",
       tags |-> <<"t1">>, metadata |-> EmptyMeta]

D3 == [title |-> "b", content |-> "x", source |-> NoneV,
       source_type |-> NoneV, category |-> NoneV,
       tags |-> <<>>, metadata |-> EmptyMeta]

D4 == [title |-> "b", content |-> "y"]

D5 == [title |-> "c", content |-> "x"]

(* a document whose caller supplies the id *)
D6 == [id |-> 1, title |-> "a", content |-> "y"]

Documents == {D1, D2, D4}

(* bulk loads: three documents 30 degrees apart (D1, D3, D4), then copies of
   one document that lies between them *)
Copies(document, n) == [k \in 1..n |-> document]

Batches == {<<D1, D3, D4>> \o Copies(filler, n) :
               filler \in {D2, D5}, n \in 0..MaxFillers}

(* the id lists asked of get_relationships *)
RelRequests ==
    {ids \in (1..5) \X (1..5) \X (1..5) : ids[1] < ids[2] /\ ids[2] < ids[3]}
    \cup {<<3, 2, 1>>, <<2, 3, 1>>, <<1, 1, 2>>, <<2, 1, 2>>,
          <<2, 4, 2, 1>>}

U1 == [tags |-> <<"t2">>]

U2 == [content |-> "y"]

U3 == [title |-> "b", category |-> "spor"]

Updates == {U1, U2, U3}

Queries == {"a", "y"}

Filter(category, source_type, tags) ==
    [category |-> category, source_type |-> source_type, tags |-> tags]

Filters == {Filter(NoneV, NoneV, <<>>),
            Filter(NoneV, "haber", <<>>),
            Filter("", NoneV, <<>>),
            Filter(NoneV, NoneV, <<"t1", "t2">>),
            Filter("ekonomi", "haber", <<>>),
            Filter("spor", "haber", <<"t1", "t2">>)}

-----------------------------------------------------------------------------
(* Operations, each one whole service call *)

Idle == [op |-> "none"]

(* a worker that is between requests *)
IdleProc == [pc |-> "idle"]

Init ==
    /\ store = << >>
    /\ clock = 1
    /\ last = Idle
    /\ procs = [p \in Procs |-> IdleProc]

AddDocument(document, fresh) ==
    /\ fresh \notin DOMAIN store
    /\ store' = add_document(store, document, fresh, clock)
    /\ last' = [op |-> "add", document |-> document,
                ret |-> Get(document, "id", fresh)]
    /\ UNCHANGED <<clock, procs>>

GetDocument(i) ==
    /\ last' = [op |-> "get", id |-> i, ret |-> get_document(store, i),
                after |-> IF last.op = "add" THEN last ELSE Idle]
    /\ UNCHANGED <<store, clock, procs>>

UpdateDocument(i, updates) ==
    LET r == update_document(store, i, updates, clock)
    IN /\ store' = r.store
       /\ last' = [op |-> "update", id |-> i, updates |-> updates,
                   ret |-> r.ret]
       /\ UNCHANGED <<clock, procs>>

DeleteDocument(i) ==
    LET r == delete_document(store, i)
    IN /\ store' = r.store
       /\ last' = [op |-> "delete", id |-> i, ret |-> r.ret]
       /\ UNCHANGED <<clock, procs>>

Next ==
    \/ \E document \in Documents, fresh \in Ids : AddDocument(document, fresh)
    \/ \E i \in Ids : GetDocument(i)
    \/ \E i \in Ids, updates \in Updates : UpdateDocument(i, updates)
    \/ \E i \in Ids : DeleteDocument(i)

Spec == Init /\ [][Next]_vars

Search(query, limit, score_threshold, filter_category, filter_source_type, filter_tags) ==
    /\ last' = [op |-> "search", query |-> query, limit |-> limit,
                score_threshold |-> score_threshold,
                filter_category |-> filter_category,
                filter_source_type |-> filter_source_type,
                filter_tags |-> filter_tags,
                ret |-> search(store, query, limit, score_threshold,
                               filter_category, filter_source_type,
                               filter_tags)]
    /\ UNCHANGED <<store, clock, procs>>

FindSimilar(i, limit, score_threshold) ==
    /\ last' = [op |-> "similar", id |-> i, limit |-> limit,
                score_threshold |-> score_threshold,
                ret |-> find_similar(store, i, limit, score_threshold)]
    /\ UNCHANGED <<store, clock, procs>>

NextSearch ==
    \/ \E document \in Documents, fresh \in SearchIds :
           AddDocument(document, fresh)
    \/ \E i \in SearchIds : DeleteDocument(i)
    \/ \E query \in Queries, limit \in Limits, score_threshold \in Thresholds,
          filter \in Filters :
           Search(query, limit, score_threshold, filter.category,
                  filter.source_type, filter.tags)
    \/ \E i \in SearchIds, limit \in Limits, score_threshold \in Thresholds :
           FindSimilar(i, limit, score_threshold)

SpecSearch == Init /\ [][NextSearch]_vars

-----------------------------------------------------------------------------
(* A collection loaded in bulk, and its relationship graphs *)

(* the uuids generated for a batch of n documents *)
FreshIds(st, n) ==
    LET first == Cardinality(DOMAIN st)
    IN [k \in 1..n |-> first + k]

(* the collection is loaded once, into the empty index *)
AddDocumentsBulk(documents) ==
    /\ store = << >>
    /\ LET r == add_documents_bulk(store, documents,
                                   FreshIds(store, Len(documents)), clock)
       IN /\ store' = r.store
          /\ last' = [op |-> "add_bulk", ret |-> r.ret]
    /\ UNCHANGED <<clock, procs>>

Relationships(doc_ids, similarity_threshold) ==
    /\ last' = [op |-> "relationships", doc_ids |-> doc_ids,
                similarity_threshold |-> similarity_threshold,
                ret |-> get_relationships(store, doc_ids,
                                          similarity_threshold)]
    /\ UNCHANGED <<store, clock, procs>>

NextRel ==
    \/ \E documents \in Batches : AddDocumentsBulk(documents)
    \/ \E doc_ids \in RelRequests, similarity_threshold \in Thresholds :
           Relationships(doc_ids, similarity_threshold)

SpecRel == Init /\ [][NextRel]_vars

-----------------------------------------------------------------------------
(* Requests served side by side: a handler that makes several index calls
   takes one step per call, and other requests run in between *)

(* POST /api/search/similar, "Check if document exists" *)
SimilarCheck(p, i, limit, score_threshold) ==
    /\ procs[p].pc = "idle"
    /\ LET doc == get_document(store, i)
       IN IF doc = NoDocument
          THEN /\ last' = [op |-> "http_similar", id |-> i, status |-> 404,
                           ret |-> <<>>]
               /\ UNCHANGED procs
          ELSE /\ procs' = [procs EXCEPT ![p] =
                              [pc |-> "similar_retrieve", id |-> i,
                               limit |-> limit,
                               score_threshold |-> score_threshold]]
               /\ UNCHANGED last
    /\ UNCHANGED <<store, clock>>

(* find_similar, "Get the document's vector": with no point the service
   returns [] and the handler answers 200 *)
SimilarRetrieve(p) ==
    /\ procs[p].pc = "similar_retrieve"
    /\ LET points == Retrieve(store, <<procs[p].id>>)
       IN IF points = <<>>
          THEN /\ last' = [op |-> "http_similar", id |-> procs[p].id,
                           status |-> 200, ret |-> <<>>]
               /\ procs' = [procs EXCEPT ![p] = IdleProc]
          ELSE /\ procs' = [procs EXCEPT ![p] =
                              [pc |-> "similar_search", id |-> procs[p].id,
                               limit |-> procs[p].limit,
                               score_threshold |-> procs[p].score_threshold,
                               vector |-> points[1].vector]]
               /\ UNCHANGED last
    /\ UNCHANGED <<store, clock>>

(* find_similar, the search with the retrieved vector, and the response *)
SimilarSearch(p) ==
    /\ procs[p].pc = "similar_search"
    /\ last' = [op |-> "http_similar", id |-> procs[p].id, status |-> 200,
                ret |-> SimilarTo(store, procs[p].id, procs[p].vector,
                                  procs[p].limit, procs[p].score_threshold)]
    /\ procs' = [procs EXCEPT ![p] = IdleProc]
    /\ UNCHANGED <<store, clock>>

NextConc ==
    \/ \E document \in Documents, fresh \in ConcIds :
           AddDocument(document, fresh)
    \/ \E i \in ConcIds : DeleteDocument(i)
    \/ \E p \in Procs, i \in ConcIds, limit \in Limits,
          score_threshold \in Thresholds :
           SimilarCheck(p, i, limit, score_threshold)
    \/ \E p \in Procs : SimilarRetrieve(p)
    \/ \E p \in Procs : SimilarSearch(p)

SpecConc == Init /\ [][NextConc]_vars

-----------------------------------------------------------------------------
(* Statistics of a small and of a large collection *)

(* the ids that are added and deleted around the scroll limit *)
StatsIds == ScrollLimit..(ScrollLimit + MaxExtra)

(* the document that was added under id i *)
LoadedDocument(i) == CASE i % 3 = 1 -> D1 [] i % 3 = 2 -> D2 [] OTHER -> D4

(* a collection of n documents, added one by one under the ids 1..n *)
Loaded(n) ==
    [i \in 1..n |->
        [vector |-> encode_single(TextForEmbedding(LoadedDocument(i))),
         payload |-> AddPayload(LoadedDocument(i), 1)]]

InitStats ==
    /\ store \in {Loaded(n) : n \in {0, MaxIds, ScrollLimit - 1}}
    /\ clock = 1
    /\ last = Idle
    /\ procs = [p \in Procs |-> IdleProc]

CollectionStats ==
    /\ last' = [op |-> "stats", ret |-> get_collection_stats(store)]
    /\ UNCHANGED <<store, clock, procs>>

NextStats ==
    \/ \E document \in Documents, fresh \in StatsIds :
           AddDocument(document, fresh)
    \/ \E i \in StatsIds : DeleteDocument(i)
    \/ CollectionStats

SpecStats == InitStats /\ [][NextStats]_vars

-----------------------------------------------------------------------------
(* Calls made at different times *)

(* datetime.utcnow() reads a later time *)
Tick ==
    /\ clock < MaxClock
    /\ clock' = clock + 1
    /\ UNCHANGED <<store, last, procs>>

TimeDocuments == {D4, D6}

TimeUpdates == {U1, U2}

NextTime ==
    \/ Tick
    \/ \E document \in TimeDocuments, fresh \in Ids :
           AddDocument(document, fresh)
    \/ \E i \in Ids, updates \in TimeUpdates : UpdateDocument(i, updates)
    \/ \E i \in Ids : DeleteDocument(i)

SpecTime == Init /\ [][NextTime]_vars

-----------------------------------------------------------------------------
(* Updates served side by side with adds, deletes and other updates *)

RaceDocuments == {D1, D6}

(* update_document, "Get existing document" and "Merge updates": a missing
   id ends the call, else the worker holds what it read *)
UpdateRead(p, i, updates) ==
    /\ procs[p].pc = "idle"
    /\ LET existing == get_document(store, i)
       IN IF existing = NoDocument
          THEN /\ last' = [op |-> "update", id |-> i, updates |-> updates,
                           raised |-> FALSE, ret |-> FALSE]
               /\ UNCHANGED procs
          ELSE /\ procs' = [procs EXCEPT ![p] =
                              [pc |-> "update_write", id |-> i,
                               updates |-> updates, existing |-> existing,
                               now |-> clock]]
               /\ UNCHANGED last
    /\ UNCHANGED <<store, clock>>

(* update_document, the upsert or the set_payload, made with what was read;
   set_payload changes nothing when the point is gone, and the call then
   either raises or returns *)
UpdateWrite(p) ==
    /\ procs[p].pc = "update_write"
    /\ LET i == procs[p].id
           updates == procs[p].updates
       IN IF ReEmbeds(updates) \/ Stored(store, i)
          THEN /\ store' = update_write(store, i, updates,
                                        procs[p].existing, procs[p].now)
               /\ last' = [op |-> "update", id |-> i, updates |-> updates,
                           raised |-> FALSE, ret |-> TRUE]
          ELSE /\ store' = store
               /\ \E raised \in BOOLEAN :
                     last' = [op |-> "update", id |-> i, updates |-> updates,
                              raised |-> raised, ret |-> ~raised]
    /\ procs' = [procs EXCEPT ![p] = IdleProc]
    /\ UNCHANGED clock

NextRace ==
    \/ \E document \in RaceDocuments, fresh \in ConcIds :
           AddDocument(document, fresh)
    \/ \E i \in ConcIds : DeleteDocument(i)
    \/ \E p \in Procs, i \in ConcIds, updates \in TimeUpdates :
           UpdateRead(p, i, updates)
    \/ \E p \in Procs : UpdateWrite(p)

SpecRace == Init /\ [][NextRace]_vars

-----------------------------------------------------------------------------
(* Calls that may fail *)

FaultIds == 1..(MaxIds + 1)

FaultDocuments == {D1}

FaultBatches == {<<D1>>, <<D1, D1>>}

(* the uuids generated for a batch: distinct ids that are not in use *)
FreshFor(st, documents) ==
    {fresh \in [DOMAIN documents -> FaultIds \ DOMAIN st] :
        \A k, m \in DOMAIN documents : k # m => fresh[k] # fresh[m]}

FaultyAddDocument(document, fresh, fault) ==
    /\ fresh \notin DOMAIN store
    /\ LET r == try_add_document(store, document, fresh, clock, fault)
       IN /\ store' = r.store
          /\ last' = [op |-> "add", document |-> document, fault |-> fault,
                      raised |-> r.raised, ret |-> r.ret]
    /\ UNCHANGED <<clock, procs>>

FaultyAddDocumentsBulk(documents, fresh, fault, fails_at) ==
    /\ LET r == try_add_documents_bulk(store, documents, fresh, clock, fault,
                                       fails_at)
       IN /\ store' = r.store
          /\ last' = [op |-> "add_bulk", documents |-> documents,
                      fault |-> fault, raised |-> r.raised, ret |-> r.ret]
    /\ UNCHANGED <<clock, procs>>

FaultyGetDocument(i, fault) ==
    /\ last' = [op |-> "get", id |-> i, fault |-> fault, raised |-> FALSE,
                ret |-> try_get_document(store, i, fault)]
    /\ UNCHANGED <<store, clock, procs>>

FaultyUpdateDocument(i, updates, fault) ==
    /\ LET r == try_update_document(store, i, updates, clock, fault)
       IN /\ store' = r.store
          /\ last' = [op |-> "update", id |-> i, updates |-> updates,
                      fault |-> fault, raised |-> r.raised, ret |-> r.ret]
    /\ UNCHANGED <<clock, procs>>

FaultyDeleteDocument(i, fault) ==
    /\ LET r == try_delete_document(store, i, fault)
       IN /\ store' = r.store
          /\ last' = [op |-> "delete", id |-> i, fault |-> fault,
                      raised |-> r.raised, ret |-> r.ret]
    /\ UNCHANGED <<clock, procs>>

NextFault ==
    \/ \E document \in FaultDocuments, fresh \in FaultIds,
          fault \in {"none", "embedding", "backend"} :
           FaultyAddDocument(document, fresh, fault)
    \/ \E documents \in FaultBatches :
           \E fresh \in FreshFor(store, documents) :
              \/ FaultyAddDocumentsBulk(documents, fresh, "none", 0)
              \/ FaultyAddDocumentsBulk(documents, fresh, "backend", 0)
              \/ \E fails_at \in DOMAIN documents :
                     FaultyAddDocumentsBulk(documents, fresh, "embedding",
                                            fails_at)
    \/ \E i \in FaultIds, fault \in {"none", "backend"} :
           FaultyGetDocument(i, fault)
    \/ \E i \in FaultIds, updates \in TimeUpdates,
          fault \in {"none", "read", "embedding", "write"} :
           FaultyUpdateDocument(i, updates, fault)
    \/ \E i \in FaultIds, fault \in {"none", "backend"} :
           FaultyDeleteDocument(i, fault)

SpecFault == Init /\ [][NextFault]_vars

-----------------------------------------------------------------------------
(* Document store properties *)

(* the value of field f of an input document: what was supplied, else the
   default that DocumentBase declares for it *)
DocumentField(document, f) ==
    Get(document, f, CASE f = "tags" -> <<>>
                       [] f = "metadata" -> EmptyMeta
                       [] OTHER -> NoneV)

(* C1: get(id) called right after add(D) returned id yields D's seven fields,
   the id, a created_at and a null updated_at, whatever was stored before. *)
C1_RoundTrip ==
    (last.op = "get" /\ last.after.op = "add" /\ last.after.ret = last.id) =>
        /\ last.ret # NoDocument
        /\ \A f \in DocFields :
              last.ret[f] = DocumentField(last.after.document, f)
        /\ last.ret["id"] = last.id
        /\ last.ret["created_at"] # NullTime
        /\ last.ret["updated_at"] = NullTime

C1_Witness ==
    /\ last.op = "get"
    /\ last.after.op = "add"
    /\ last.after.ret = last.id
    /\ last.after.document = D1
    /\ Cardinality(DOMAIN store) = 2
    /\ last.ret # NoDocument

(* C2: delete(id) returns true exactly when id was stored, and on an id that
   is not stored it returns false and leaves the store unchanged. *)
C2_DeleteReportsExistence ==
    [][(last'.op = "delete" /\ DeleteDocument(last'.id)) =>
          /\ last'.ret = Stored(store, last'.id)
          /\ ~Stored(store, last'.id) => store' = store]_vars

(* C3: a successful update that supplies neither title nor content keeps the
   vector of its id, and keeps every other point as it was. *)
C3_PayloadOnlyUpdateKeepsVectors ==
    [][(/\ last'.op = "update"
        /\ UpdateDocument(last'.id, last'.updates)
        /\ last'.ret
        /\ ~ReEmbeds(last'.updates)) =>
          /\ DOMAIN store' = DOMAIN store
          /\ store'[last'.id].vector = store[last'.id].vector
          /\ \A j \in DOMAIN store \ {last'.id} : store'[j] = store[j]]_vars

C3_Witness ==
    /\ last.op = "update"
    /\ last.ret
    /\ ~ReEmbeds(last.updates)
    /\ Cardinality(DOMAIN store) = 2
    /\ store[last.id].payload["tags"] = <<"t2">>

(* C4: a successful update that supplies title or content leaves at its id
   the supplied fields over the previous payload, and the embedding of the
   resulting title and content. *)
C4_ReEmbedFromMerged ==
    [][(/\ last'.op = "update"
        /\ UpdateDocument(last'.id, last'.updates)
        /\ last'.ret
        /\ ReEmbeds(last'.updates)) =>
          LET i == last'.id
              updates == last'.updates
              old == store[i].payload
              new == store'[i].payload
          IN /\ \A f \in PayloadFields \ {"updated_at"} :
                   new[f] = IF f \in DOMAIN updates THEN updates[f] ELSE old[f]
             /\ store'[i].vector =
                   encode_single(
                     (IF "title" \in DOMAIN updates THEN updates["title"]
                      ELSE old["title"]) \o " " \o
                     (IF "content" \in DOMAIN updates THEN updates["content"]
                      ELSE old["content"]))
             /\ \A j \in DOMAIN store \ {i} : store'[j] = store[j]]_vars

C4_Witness ==
    /\ last.op = "update"
    /\ last.ret
    /\ last.updates = U2
    /\ store[last.id].payload["title"] = "b"
    /\ store[last.id].payload["content"] = "y"
    /\ store[last.id].vector = 4

(* C5: update on an id that is not stored returns false and changes nothing. *)
C5_UpdateMissing ==
    [][(/\ last'.op = "update"
        /\ UpdateDocument(last'.id, last'.updates)
        /\ ~Stored(store, last'.id)) =>
          /\ last'.ret = FALSE
          /\ store' = store]_vars

C5_Witness ==
    /\ last.op = "update"
    /\ last.ret = FALSE
    /\ ~Stored(store, last.id)
    /\ store # << >>

-----------------------------------------------------------------------------
(* Search properties *)

ReturnedIds(ret) == {ret[k]["id"] : k \in DOMAIN ret}

(* C6: every document that search returns carries the requested category,
   the requested source_type and one of the requested tags, for each of
   the filters that was supplied (a None or empty filter is not supplied). *)
C6_FilterCorrectness ==
    last.op = "search" =>
        \A k \in DOMAIN last.ret :
            LET stored == store[last.ret[k]["id"]].payload
            IN /\ Truthy(last.filter_category) =>
                     /\ last.ret[k]["category"] = last.filter_category
                     /\ stored["category"] = last.filter_category
               /\ Truthy(last.filter_source_type) =>
                     /\ last.ret[k]["source_type"] = last.filter_source_type
                     /\ stored["source_type"] = last.filter_source_type
               /\ last.filter_tags # <<>> =>
                     Range(stored["tags"]) \cap Range(last.filter_tags) # {}

(* a document of another category outscores the ones returned *)
C6_Witness ==
    /\ last.op = "search"
    /\ last.filter_category = "ekonomi"
    /\ last.filter_source_type = "haber"
    /\ Len(last.ret) = 1
    /\ \E i \in DOMAIN store :
          /\ store[i].payload["category"] = "spor"
          /\ Score(store[i].vector, encode_single(last.query))
                > last.ret[1]["score"]

(* C7: with several requested tags, a document that carries any one of them
   and passes the threshold and the other filters is returned (checked where
   the limit did not cut the result). *)
C7_TagsMatchAny ==
    (last.op = "search" /\ Len(last.filter_tags) > 1
       /\ Len(last.ret) < last.limit) =>
        \A i \in DOMAIN store :
            (/\ Score(store[i].vector, encode_single(last.query))
                  >= last.score_threshold
             /\ Truthy(last.filter_category) =>
                  store[i].payload["category"] = last.filter_category
             /\ Truthy(last.filter_source_type) =>
                  store[i].payload["source_type"] = last.filter_source_type
             /\ Range(store[i].payload["tags"]) \cap Range(last.filter_tags)
                  # {})
            => i \in ReturnedIds(last.ret)

(* C8: find_similar returns at most limit documents and never the reference
   document. *)
C8_SelfExclusion ==
    last.op = "similar" =>
        /\ Len(last.ret) <= last.limit
        /\ last.id \notin ReturnedIds(last.ret)

(* more than limit other documents qualify, one of them ranked before the
   reference document *)
C8_Witness ==
    /\ last.op = "similar"
    /\ Stored(store, last.id)
    /\ last.limit = 1
    /\ Len(last.ret) = 1
    /\ Cardinality(DOMAIN store) = 3
    /\ last.score_threshold = 0
    /\ \E i \in DOMAIN store :
          i < last.id /\ store[i].vector = store[last.id].vector

(* the index's whole ranking for the stored vector of the reference
   document, without the reference document *)
RankingOfOthers ==
    SelectSeq(SearchIndex(store, store[last.id].vector, {},
                          Cardinality(DOMAIN store), last.score_threshold),
              LAMBDA r : r.id # last.id)

(* C22: find_similar on a stored id returns the first limit entries of the
   index's ranking for that id's vector with the id itself removed, ids and
   scores alike, also when other documents tie with or outrank it. *)
C22_SimilarIsRankingPrefix ==
    (last.op = "similar" /\ Stored(store, last.id)) =>
        /\ Len(last.ret) = Min(last.limit, Len(RankingOfOthers))
        /\ \A k \in DOMAIN last.ret :
              /\ last.ret[k]["id"] = RankingOfOthers[k].id
              /\ last.ret[k]["score"] = RankingOfOthers[k].score

(* a document with the same vector and a smaller id is ranked before the
   reference document, and both other documents are returned *)
C22_Witness ==
    /\ last.op = "similar"
    /\ Stored(store, last.id)
    /\ last.limit = 2
    /\ Len(last.ret) = 2
    /\ last.ret[1]["id"] < last.id
    /\ last.ret[1]["score"] = 100
    /\ last.ret[2]["score"] < 100

(* C18: search returns at most limit results, in non-increasing order of
   score, and every result's score is at least score_threshold. *)
C18_BoundedOrderedAboveThreshold ==
    last.op = "search" =>
        /\ Len(last.ret) <= last.limit
        /\ \A k \in DOMAIN last.ret :
              /\ last.ret[k]["score"] >= last.score_threshold
              /\ last.ret[k]["score"] =
                    Score(store[last.ret[k]["id"]].vector,
                          encode_single(last.query))
              /\ k > 1 => last.ret[k - 1]["score"] >= last.ret[k]["score"]

(* three stored documents with three different scores: two are returned,
   the better one first, and the threshold keeps the third out *)
C18_Witness ==
    /\ last.op = "search"
    /\ last.limit = 2
    /\ last.score_threshold = 90
    /\ Len(last.ret) = 2
    /\ last.ret[1]["score"] > last.ret[2]["score"]
    /\ \E i \in DOMAIN store :
          Score(store[i].vector, encode_single(last.query))
              < last.score_threshold

-----------------------------------------------------------------------------
(* Properties of requests served side by side *)

(* C9: a find_similar request whose document is not stored when the service
   looks its vector up is answered with not-found, never with a normal
   result. *)
C9_SimilarMissingIsNotFound ==
    [][\A p \in Procs :
          (SimilarRetrieve(p) /\ ~Stored(store, procs[p].id)) =>
              last'.status = 404]_vars

-----------------------------------------------------------------------------
(* Relationship graph properties *)

(* the last call asked for three distinct stored documents whose pairwise
   similarities all reach the threshold *)
ThreeMutuallySimilar ==
    /\ last.op = "relationships"
    /\ Len(last.doc_ids) = 3
    /\ Cardinality(Range(last.doc_ids)) = 3
    /\ Range(last.doc_ids) \subseteq DOMAIN store
    /\ \A a, b \in Range(last.doc_ids) :
          Score(store[a].vector, store[b].vector) >= last.similarity_threshold

(* exactly three edges, one for each unordered pair of the requested ids *)
OneEdgePerPair ==
    /\ Len(last.ret.edges) = 3
    /\ \A a, b \in Range(last.doc_ids) :
          a < b => \E e \in Range(last.ret.edges) :
                      EdgeKey(e.source, e.target) = <<a, b>>

(* C10, as stated: three mutually similar documents always give exactly
   three edges, whatever else the collection holds. *)
C10_ThreeEdgesAlways == ThreeMutuallySimilar => OneEdgePerPair

(* no requested document has more than RelLimit stored documents (itself
   included) at or above the threshold *)
WithinCandidateLimit ==
    \A a \in Range(last.doc_ids) :
        Cardinality(Hits(store, store[a].vector, last.similarity_threshold,
                         {})) <= RelLimit

(* C10, amended: three mutually similar documents give exactly three edges,
   one per unordered pair, when none of them has more than 10 stored
   documents (itself included) at or above the threshold. *)
C10_ThreeEdgesWithinLimit ==
    (ThreeMutuallySimilar /\ WithinCandidateLimit) => OneEdgePerPair

C10_Witness ==
    /\ ThreeMutuallySimilar
    /\ WithinCandidateLimit
    /\ Cardinality(DOMAIN store) = RelLimit
    /\ last.doc_ids = <<1, 2, 3>>
    /\ Len(last.ret.edges) = 3

-----------------------------------------------------------------------------
(* The unordered pair an edge connects *)
Pair(e) == {e.source, e.target}

(* C11: in the result of a relationships call no unordered pair of
   documents is connected by more than one edge, also when the pair is
   found from both of its endpoints and when doc_ids names an id twice. *)
C11_NoDuplicateEdges ==
    last.op = "relationships" =>
        \A k, m \in DOMAIN last.ret.edges :
            k # m => Pair(last.ret.edges[k]) # Pair(last.ret.edges[m])

(* doc_ids names id 2 twice, documents 1 and 2 find each other *)
C11_Witness ==
    /\ last.op = "relationships"
    /\ last.doc_ids = <<2, 1, 2>>
    /\ {1, 2} \subseteq DOMAIN store
    /\ Score(store[1].vector, store[2].vector) >= last.similarity_threshold
    /\ Len(last.ret.edges) = 1

(* C12: every edge of a relationships result has source < target. *)
C12_CanonicalOrientation ==
    last.op = "relationships" =>
        \A k \in DOMAIN last.ret.edges :
            last.ret.edges[k].source < last.ret.edges[k].target

-----------------------------------------------------------------------------
(* Statistics properties *)

(* the count a statistics dict reports for a key: absent keys count 0 *)
Reported(counts, key) == Get(counts, key, 0)

(* C13: collection_stats reports, for every tag, its number of occurrences
   over all stored documents, and for every category and source type the
   number of stored documents that carry it, whatever the size of the
   collection. *)
C13_StatsCountEverything ==
    last.op = "stats" =>
        /\ \A tag \in {"t1", "t2"} :
              Reported(last.ret.tags, tag)
                  = TagIncrements(store, DOMAIN store, tag)
        /\ \A cat \in {"ekonomi", "spor"} :
              Reported(last.ret.categories, cat)
                  = Cardinality({i \in DOMAIN store :
                                   store[i].payload["category"] = cat})
        /\ \A st \in {"haber"} :
              Reported(last.ret.source_types, st)
                  = Cardinality({i \in DOMAIN store :
                                   store[i].payload["source_type"] = st})

-----------------------------------------------------------------------------
(* Timestamp properties *)

(* C16: the created_at of an id that stays stored never changes, whether
   the step is an update or an add that names the id again. *)
C16_CreatedAtNeverChanges ==
    [][\A i \in DOMAIN store \cap DOMAIN store' :
          store'[i].payload["created_at"] = store[i].payload["created_at"]]_vars

(* the step is an add that wrote the document of id i *)
AddedNow(i) ==
    /\ last'.op = "add"
    /\ last'.ret = i
    /\ \E fresh \in Ids : AddDocument(last'.document, fresh)

(* the step is an update of id i that returned true *)
UpdatedNow(i) ==
    /\ last'.op = "update"
    /\ last'.id = i
    /\ last'.ret
    /\ UpdateDocument(i, last'.updates)

(* C17: updated_at is null when a document is added, becomes the time of
   the call at every update that returns true, and is changed by nothing
   else, in particular not by an update that returns false. *)
C17_UpdatedAtTracksUpdates ==
    [][\A i \in DOMAIN store' :
          store'[i].payload["updated_at"] =
              IF UpdatedNow(i) THEN clock
              ELSE IF AddedNow(i) THEN NullTime
              ELSE store[i].payload["updated_at"]]_vars

(* one document updated twice, the second time later than the first, next
   to a document that was never updated *)
C17_Witness ==
    /\ last.op = "update"
    /\ last.ret
    /\ clock = MaxClock
    /\ store[last.id].payload["updated_at"] = clock
    /\ store[last.id].payload["created_at"] < clock
    /\ store[last.id].payload["tags"] = <<"t2">>
    /\ store[last.id].payload["content"] = "y"
    /\ \E j \in DOMAIN store : store[j].payload["updated_at"] = NullTime

-----------------------------------------------------------------------------
(* Failure properties *)

(* the step is a call whose embedding fails: an add, a bulk add, or an
   update that supplies title or content for a stored id *)
EmbeddingFailed ==
    /\ last'.op \in {"add", "add_bulk", "update"}
    /\ last'.fault = "embedding"
    /\ last'.op = "update" =>
           (ReEmbeds(last'.updates) /\ Stored(store, last'.id))

(* C14: a call whose embedding fails raises and leaves the index exactly as
   it was: no document of a batch is stored, and an update changes neither
   the payload nor the vector. *)
C14_EmbeddingFailureAborts ==
    [][EmbeddingFailed => (last'.raised /\ store' = store)]_vars

(* a batch whose second text fails to embed, loaded next to a stored
   document *)
C14_Witness ==
    /\ last.op = "add_bulk"
    /\ last.fault = "embedding"
    /\ last.documents = <<D1, D1>>
    /\ last.raised
    /\ Cardinality(DOMAIN store) = 1

(* C15: when the document is stored, get does not return None, and update
   and delete do not return false: a failure of the index is raised. *)
C15_BackendFailureSurfaced ==
    [][(last'.op \in {"get", "update", "delete"}
          /\ Stored(store, last'.id) /\ ~last'.raised) =>
          /\ last'.op = "get" => last'.ret # NoDocument
          /\ last'.op \in {"update", "delete"} => last'.ret = TRUE]_vars

-----------------------------------------------------------------------------
(* Properties of updates served side by side *)

(* C19: whatever the interleaving, the vector of every stored record is the
   embedding of the title and content in that record's payload. *)
C19_VectorMatchesPayload ==
    \A i \in DOMAIN store :
        store[i].vector = encode_single(TextForEmbedding(store[i].payload))

(* C20: the write of an update never makes an id stored that was not
   stored: after a delete that followed the update's read, the id stays
   gone. *)
C20_UpdateNeverCreates ==
    [][(\E p \in Procs : UpdateWrite(p)) =>
          DOMAIN store' \subseteq DOMAIN store]_vars

-----------------------------------------------------------------------------
(* Payload properties *)

(* C21: the payload of every stored document holds exactly the nine fields
   title, content, source, source_type, category, tags, metadata,
   created_at and updated_at, and no id field, after adds and after any
   number of updates. *)
C21_PayloadHasNoId ==
    \A i \in DOMAIN store : DOMAIN store[i].payload = PayloadFields

-----------------------------------------------------------------------------
(* Relationship graph: nodes and edges *)

(* the ids of the returned nodes, in the order returned *)
NodeIds == [k \in DOMAIN last.ret.nodes |-> last.ret.nodes[k].id]

(* the first position at which doc_ids names id i *)
FirstAt(doc_ids, i) ==
    CHOOSE k \in DOMAIN doc_ids :
        doc_ids[k] = i /\ \A m \in 1..(k - 1) : doc_ids[m] # i

(* C23: relationships returns one node for each distinct requested id that
   is stored, none for an id that is not stored, one for an id requested
   twice, in the order in which doc_ids first names them, each with the
   stored title, category and source type. *)
C23_OneNodePerStoredId ==
    last.op = "relationships" =>
        /\ Range(NodeIds) = Range(last.doc_ids) \cap DOMAIN store
        /\ \A k, m \in DOMAIN NodeIds :
              k < m => FirstAt(last.doc_ids, NodeIds[k])
                          < FirstAt(last.doc_ids, NodeIds[m])
        /\ \A k \in DOMAIN NodeIds :
              LET payload == store[NodeIds[k]].payload
              IN /\ last.ret.nodes[k].title = payload["title"]
                 /\ last.ret.nodes[k].category = payload["category"]
                 /\ last.ret.nodes[k].source_type = payload["source_type"]

(* id 2 is requested twice and id 4 is not stored *)
C23_Witness ==
    /\ last.op = "relationships"
    /\ last.doc_ids = <<2, 4, 2, 1>>
    /\ DOMAIN store = {1, 2, 3}
    /\ NodeIds = <<2, 1>>

(* C24: every edge of a relationships result joins two different ids that
   are both requested and both among the returned nodes, and its weight is
   the similarity of the two stored vectors, which is at least the
   threshold. *)
C24_EdgesWithinRequestedSet ==
    last.op = "relationships" =>
        \A k \in DOMAIN last.ret.edges :
            LET e == last.ret.edges[k]
            IN /\ e.source # e.target
               /\ {e.source, e.target} \subseteq Range(last.doc_ids)
               /\ {e.source, e.target} \subseteq Range(NodeIds)
               /\ e.weight = Score(store[e.source].vector,
                                   store[e.target].vector)
               /\ e.weight >= last.similarity_threshold

(* a stored document that was not requested is as similar to a requested
   one as the pair that got an edge, and the threshold keeps another
   requested pair apart *)
C24_Witness ==
    /\ last.op = "relationships"
    /\ last.doc_ids = <<1, 2, 4>>
    /\ last.similarity_threshold = 90
    /\ Len(last.ret.edges) = 2
    /\ \E j \in DOMAIN store \ Range(last.doc_ids) :
          \E i \in Range(last.doc_ids) :
              Score(store[j].vector, store[i].vector) >= last.ret.edges[1].weight
    /\ \E a, b \in Range(last.doc_ids) :
          Score(store[a].vector, store[b].vector) < last.similarity_threshold

====
